---- MODULE Spec2Model ----
(***************************************************************************)
(* Walkie-talkie relay server: channel membership, presence / push-to-talk *)
(* broadcasts and the ephemeral audio store.                               *)
(*                                                                         *)
(* Four specifications share the variables below:                          *)
(*   Spec        the multi-channel backend   (per-socket userChannels Set) *)
(*   SpecHealth  the health-checked backend, relay with the clock held     *)
(*   SpecLive    the health-checked backend, liveness monitor and clock    *)
(*   SpecMedia   the upload tracking and the cleanup sweeps                *)
(*                                                                         *)
(* multer's disk storage is modelled by what the upload handler sees of    *)
(* it: the file is created under its final name when the request starts,   *)
(* written as the body arrives, and the handler's callback runs when the   *)
(* body is complete.                                                       *)
(*                                                                         *)
(* socket.io is modelled by what the handlers use of it: a room is an      *)
(* insertion-ordered set of socket ids (adapter.rooms), io.to(r) reaches   *)
(* every socket of room r, socket.to(r) every one but the sender,          *)
(* socket.emit the socket itself while it is connected, and a socket has   *)
(* left every room before its 'disconnect' handler runs.                   *)
(***************************************************************************)
EXTENDS Integers, Sequences, FiniteSets, TLC

\* ----------------------------------------------------------------- bounds
\* Pending setTimeout callbacks the model lets accumulate.
MaxTimers == 1
\* How many clock ticks the model follows.
MaxTicks == 7
\* How many clock ticks the media store is followed for.
MaxMediaTicks == 6
\* How many distinct objects are uploaded.
MaxUploads == 1
\* Until which clock tick uploads begin.
MaxUploadTicks == 0

\* ------------------------------------------------------ program constants
\* if (inactiveTime > 60000)
HEALTH_TIMEOUT_MS == 60000
\* setInterval(..., 30000)
HEALTH_INTERVAL_MS == 30000
\* The clock advances in steps of half a health-check interval.
TickMs == HEALTH_INTERVAL_MS \div 2
\* const FILE_MAX_AGE_MS = 4 * 60 * 1000
FILE_MAX_AGE_MS == 4 * 60 * 1000
\* const CLEANUP_INTERVAL_MS = 60 * 1000
CLEANUP_INTERVAL_MS == 60 * 1000
\* setupAudioCleanup: setInterval(..., 4 * 60 * 1000)
AUDIO_CLEANUP_INTERVAL_MS == 4 * 60 * 1000
\* cleanupOldAudioFiles: const maxAge = 10 * 60 * 1000
AUDIO_MAX_AGE_MS == 10 * 60 * 1000
\* The media store's clock advances in steps of one sweep interval; what happens
\* at one instant happens in any order.
MediaTickMs == CLEANUP_INTERVAL_MS

\* ------------------------------------------------------------- universes
Sockets == {"s1", "s2"}
Channels == {"freq-446.00", "freq-462.55"}

VARIABLES
    conn,          \* socket id -> "new" | "open" | "closed"
    rooms,         \* io.sockets.adapter.rooms: channel -> members, in insertion order
    userChannels,  \* multi-channel backend: socket -> its userChannels Set (insertion order)
    timers,        \* pending setTimeout callbacks, oldest first (equal delays fire in order)
    sent,          \* the emissions of the last handled event, in order
    last,          \* the last handled event
    confirmed,     \* history (multi-channel backend): <<socket, channel>> pairs sent
                   \* joinConfirmation(success=true)
    server,        \* "up", or "crashed" after an uncaught exception
    activeKeys,    \* health-checked backend: Object.keys(activeChannels), in insertion order
    activeChannels,\* health-checked backend: channel -> array of socket ids
    lastActivity,  \* health-checked backend: socket -> its lastActivity (ms)
    healthCheck,   \* health-checked backend: socket -> next firing of its interval, -1 if none
    now,           \* Date.now() (ms)
    uploadedFiles, \* media store: the uploadedFiles Map, file name -> timestamp (ms)
    disk,          \* media store: the uploads directory, file name -> mtime (ms)
    cleanupTimer,  \* media store: next firing of cleanupInterval, -1 before start
    audioCleanup,  \* media store: next firing of setupAudioCleanup's interval, -1 if none
    inflight,      \* media store: names of the files multer is still writing
    created,       \* history (media store): uploaded file name -> its recorded creation time
    channels,      \* Map-based backend: the channels Map, channel id -> Set of socket ids
    users,         \* Map-based backend: the users Map, socket id -> its channels Set
    variant,       \* which backend the server runs: "multi", "health" or "map"
    rejected,      \* history: the names of the uploads that were refused
    client,        \* the app: the state of useSocket and of the socketService singleton
    pending        \* history (health-checked backend), one entry per pending timer:
                   \* the sockets that have been in its channel's room ever since it
                   \* was set and were not delivered the emission made at that moment

vars == <<conn, rooms, userChannels, timers, sent, last, confirmed,
          server, activeKeys, activeChannels, lastActivity, healthCheck, now, pending,
          uploadedFiles, disk, cleanupTimer, audioCleanup, inflight, created,
          channels, users, variant, client, rejected>>

\* The media store's variables.
mediaVars == <<uploadedFiles, disk, cleanupTimer, audioCleanup, inflight, created, rejected>>

\* The Map-based backend's registries.
mapVars == <<channels, users>>

\* What no socket handler of the multi-channel or health-checked backend touches.
farVars == <<mediaVars, mapVars, variant, client>>

\* What the multi-channel backend's socket handlers do not touch.
healthVars == <<server, activeKeys, activeChannels, lastActivity, healthCheck, now, pending,
                farVars>>

\* The socket side of the servers, which the media store does not touch.
socketVars == <<conn, rooms, userChannels, timers, sent, confirmed, server, activeKeys,
                activeChannels, lastActivity, healthCheck, pending, mapVars, variant, client>>

\* ------------------------------------------------------------ JS values
\* A JavaScript value a client may send as channelId: its typeof and its text.
Str(s) == [t |-> "string", v |-> s]
Undefined == [t |-> "undefined", v |-> "undefined"]
Null == [t |-> "object", v |-> "null"]
Num(s) == [t |-> "number", v |-> s]

\* JavaScript truthiness of such a value.
Truthy(x) ==
    CASE x.t = "string" -> x.v # ""
      [] x.t = "number" -> x.v \notin {"0", "NaN"}
      [] OTHER -> FALSE

\* !channelId || typeof channelId !== 'string'
InvalidChannelId(x) == ~Truthy(x) \/ x.t # "string"

\* String(channelId) || 'unknown'
StringOrUnknown(x) == IF x.v # "" THEN x.v ELSE "unknown"

\* ------------------------------------------------------- Set / room helpers
Range(seq) == {seq[i] : i \in 1..Len(seq)}

\* Set.prototype.has
SetHas(seq, x) == x \in Range(seq)

\* Set.prototype.add: an element already present is not added again.
SetAdd(seq, x) == IF SetHas(seq, x) THEN seq ELSE Append(seq, x)

\* Mutant: the element is not removed.
SetDeleteKept(seq, x) == seq

\* Set.prototype.delete
SetDelete(seq, x) == SelectSeq(seq, LAMBDA y : y # x)

\* How many times x occurs in seq.
Count(seq, x) == Cardinality({i \in 1..Len(seq) : seq[i] = x})

\* io.sockets.adapter.rooms.get(r); a room nobody is in does not exist.
RoomOf(rm, r) == IF r \in DOMAIN rm THEN rm[r] ELSE <<>>

\* Mutant: the join is never recorded in the room.
RoomJoinDropped(rm, s, r) == rm

\* socket.join(r)
RoomJoin(rm, s, r) == [rm EXCEPT ![r] = SetAdd(@, s)]

\* socket.leave(r)
RoomLeave(rm, s, r) == IF r \in DOMAIN rm THEN [rm EXCEPT ![r] = SetDelete(@, s)] ELSE rm

\* socket.leaveAll(), which socket.io runs before the 'disconnect' handlers
RoomLeaveAll(rm, s) == [r \in DOMAIN rm |-> SetDelete(rm[r], s)]

\* -------------------------------------------------------------- emissions
\* One emit call: the event, the room it was addressed to ("" for socket.emit),
\* the sockets it is delivered to, and the payload fields.
Msg(ev, room, to, userId, channelId, status, list, uri) ==
    [ev |-> ev, room |-> room, to |-> to, userId |-> userId,
     channelId |-> channelId, status |-> status, users |-> list, uri |-> uri,
     error |-> ""]

\* Mutant: the error text is left out of the payload.
WithErrorNone(m, e) == m

\* The same emission with an error text in its payload.
WithError(m, e) == [m EXCEPT !.error = e]

\* Mutant: the emission goes to every connected socket (io.emit for socket.emit).
SocketEmitAll(cn, s, ev, userId, channelId, status, list, uri) ==
    Msg(ev, "", {x \in Sockets : cn[x] = "open"}, userId, channelId, status, list, uri)

\* socket.emit(ev, ...): dropped when the socket is no longer connected.
SocketEmit(cn, s, ev, userId, channelId, status, list, uri) ==
    Msg(ev, "", IF cn[s] = "open" THEN {s} ELSE {}, userId, channelId, status, list, uri)

\* Mutant: the broadcast skips the socket named in the payload (socket.to for io.to).
IoToEmitOthers(rm, r, ev, userId, status, uri) ==
    Msg(ev, r, Range(RoomOf(rm, r)) \ {userId}, userId, "", status, <<>>, uri)

\* io.to(r).emit(ev, ...): every socket in room r.
IoToEmit(rm, r, ev, userId, status, uri) ==
    Msg(ev, r, Range(RoomOf(rm, r)), userId, "", status, <<>>, uri)

\* Mutant: the sender is not excluded (io.to for socket.to).
SocketToEmitAll(rm, s, r, ev, userId, status, uri) ==
    Msg(ev, r, Range(RoomOf(rm, r)), userId, "", status, <<>>, uri)

\* Mutant: the room is ignored (socket.broadcast.emit for socket.to(r).emit).
SocketBroadcastEmit(rm, s, r, ev, userId, status, uri) ==
    Msg(ev, r, Sockets \ {s}, userId, "", status, <<>>, uri)

\* socket.to(r).emit(ev, ...): every socket in room r except the sender.
SocketToEmit(rm, s, r, ev, userId, status, uri) ==
    Msg(ev, r, Range(RoomOf(rm, r)) \ {s}, userId, "", status, <<>>, uri)

\* The <<socket, channel>> pairs a list of emissions delivers a successful
\* joinConfirmation to.
Confirms(msgs) ==
    {p \in Sockets \X Channels :
        \E i \in 1..Len(msgs) : /\ msgs[i].ev = "joinConfirmation"
                                /\ msgs[i].status = "true"
                                /\ msgs[i].channelId = p[2]
                                /\ p[1] \in msgs[i].to}

Event(op, s, ch, st) == [op |-> op, sock |-> s, ch |-> ch, st |-> st]

\* ------------------------------------------------------------------ inputs
ChannelInputs == {Str(c) : c \in Channels} \cup {Str(""), Undefined, Num("42")}

\* pttStatus / audioData payloads: absent, or an object whose channelId may be
\* missing ("") and whose status / data.uri may be missing ("").
NoData == [present |-> FALSE, channelId |-> "", status |-> "", uri |-> ""]
Data(c, st, u) == [present |-> TRUE, channelId |-> c, status |-> st, uri |-> u]
PttInputs == {NoData} \cup {Data(c, st, "") : c \in Channels \cup {""}, st \in {"true", "false"}}
PathUris == {"/uploads/a.m4a"}
AudioInputs == {NoData} \cup {Data(c, "", u) : c \in Channels \cup {""}, u \in {""} \cup PathUris}

\* if (uri.startsWith('/uploads/')) data.data.uri = `${protocol}://${host}${uri}`
ToFullUrl(uri) == IF uri \in PathUris THEN "http://host" \o uri ELSE uri

\* -------------------------------------------------------------- the app
\* The app before its socket connects: the useState / useRef initial values of
\* useSocket and the fields of the socketService singleton.
\*   connected       socket.connected
\*   currentChannel  socketService.currentChannel ("" for null)
\*   isJoined        the isJoined state
\*   seenJoined      the isJoined the registered handlers closed over
\*   frequency       the channel id of the selected frequency
\*   joinTimeout     joinTimeoutRef's pending timer: its channelId and the
\*                   isJoined its callback closed over, or <<>>
\*   connectTimer    the pending 1 s timer of the connect handler: the channel
\*                   id it will join, or ""
\*   resetTimer      the pending 3 s timer of the disconnect handler
\*   upload          the running call of uploadAudioWithRetry
\* No call of uploadAudioWithRetry is running.  Of a call: where it stands (pc),
\* its channelId and retryCount, what it returned, and as history the number
\* of fetches it made and of audioData and pttStatus events it emitted.
UploadIdle ==
    [pc |-> "idle", channelId |-> "", retryCount |-> 0, returned |-> "",
     attempts |-> 0, audio |-> 0, ptt |-> 0]

ClientStart(ch) ==
    [connected |-> FALSE, currentChannel |-> "", isJoined |-> FALSE, seenJoined |-> FALSE,
     frequency |-> ch, joinTimeout |-> <<>>, connectTimer |-> "", resetTimer |-> FALSE,
     upload |-> UploadIdle, speakingUser |-> "", isListening |-> FALSE,
     pttTimers |-> <<>>, isRecording |-> FALSE, stopping |-> FALSE,
     clearTimers |-> <<>>]

\* ================================================== multi-channel backend
Init ==
    /\ conn = [s \in Sockets |-> "new"]
    /\ rooms = [c \in Channels |-> <<>>]
    /\ userChannels = [s \in Sockets |-> <<>>]
    /\ timers = <<>>
    /\ sent = <<>>
    /\ last = Event("init", "", "", "")
    /\ confirmed = {}
    /\ server = "up"
    /\ activeKeys = <<>>
    /\ activeChannels = [c \in Channels |-> <<>>]
    /\ lastActivity = [s \in Sockets |-> 0]
    /\ healthCheck = [s \in Sockets |-> -1]
    /\ now = 0
    /\ pending = <<>>
    /\ uploadedFiles = <<>>
    /\ disk = <<>>
    /\ cleanupTimer = -1
    /\ audioCleanup = -1
    /\ inflight = {}
    /\ created = <<>>
    /\ rejected = {}
    /\ channels = <<>>
    /\ users = <<>>
    /\ variant = "multi"
    /\ client = ClientStart("freq-446.00")

\* io.on('connection'): a fresh socket with an empty userChannels Set.
Connect(s) ==
    /\ conn[s] = "new"
    /\ conn' = [conn EXCEPT ![s] = "open"]
    /\ userChannels' = [userChannels EXCEPT ![s] = <<>>]
    /\ sent' = <<>>
    /\ last' = Event("connect", s, "", "")
    /\ UNCHANGED <<rooms, timers, confirmed>>
    /\ UNCHANGED healthVars

\* A pending setTimeout callback with the variables its closure captured.
Timer(kind, s, c, list, st, uri) ==
    [kind |-> kind, sock |-> s, channelId |-> c, users |-> list, status |-> st, uri |-> uri]

\* socket.on('joinChannel')
JoinChannel(s, x) ==
    /\ conn[s] = "open"
    /\ IF InvalidChannelId(x)
       THEN /\ sent' = <<WithError(SocketEmit(conn, s, "joinConfirmation", "",
                                              StringOrUnknown(x), "false", <<>>, ""),
                                   "Invalid channel ID")>>
            /\ UNCHANGED <<rooms, userChannels, timers>>
       ELSE IF SetHas(userChannels[s], x.v)
       THEN /\ sent' = <<SocketEmit(conn, s, "joinConfirmation", "", x.v, "true", <<>>, ""),
                         SocketEmit(conn, s, "activeUsers", "", "", "",
                                    RoomOf(rooms, x.v), "")>>
            /\ UNCHANGED <<rooms, userChannels, timers>>
       ELSE /\ Len(timers) < MaxTimers
            /\ rooms' = RoomJoin(rooms, s, x.v)
            /\ userChannels' = [userChannels EXCEPT ![s] = SetAdd(@, x.v)]
            /\ sent' = <<SocketEmit(conn, s, "joinConfirmation", "", x.v, "true", <<>>, "")>>
            /\ timers' = Append(timers, Timer("join", s, x.v, RoomOf(rooms', x.v), "", ""))
    /\ last' = Event("joinChannel", s, IF InvalidChannelId(x) THEN "" ELSE x.v, "")
    /\ confirmed' = confirmed \cup Confirms(sent')
    /\ UNCHANGED conn
    /\ UNCHANGED healthVars

\* The setTimeout callback of joinChannel, 100 ms after the join.
JoinTimer ==
    /\ timers # <<>>
    /\ timers[1].kind = "join"
    /\ LET t == timers[1] IN
        /\ sent' = <<SocketEmit(conn, t.sock, "activeUsers", "", "", "", t.users, ""),
                     SocketToEmit(rooms, t.sock, t.channelId, "userJoined", t.sock, "", "")>>
        /\ last' = Event("joinTimer", t.sock, t.channelId, "")
    /\ timers' = Tail(timers)
    /\ UNCHANGED <<conn, rooms, userChannels, confirmed>>
    /\ UNCHANGED healthVars

\* socket.on('leaveChannel')
LeaveChannel(s, x) ==
    /\ conn[s] = "open"
    /\ rooms' = RoomLeave(rooms, s, x.v)
    /\ userChannels' = [userChannels EXCEPT ![s] = SetDelete(@, x.v)]
    /\ sent' = <<IoToEmit(rooms', x.v, "userLeft", s, "", "")>>
    /\ last' = Event("leaveChannel", s, x.v, "")
    /\ UNCHANGED <<conn, timers, confirmed>>
    /\ UNCHANGED healthVars

\* Mutant: the membership check never rejects.
NotInChannelNever(s, c) == FALSE

\* if (!userChannels.has(data.channelId)) ... return
NotInChannel(s, c) == ~SetHas(userChannels[s], c)

\* socket.on('pttStatus')
PttStatus(s, d) ==
    /\ conn[s] = "open"
    /\ IF ~d.present \/ d.channelId = ""
       THEN sent' = <<>>
       ELSE IF NotInChannel(s, d.channelId)
       THEN sent' = <<>>
       ELSE sent' = <<IoToEmit(rooms, d.channelId, "pttStatus", s, d.status, "")>>
    /\ last' = Event("pttStatus", s, d.channelId, d.status)
    /\ UNCHANGED <<conn, rooms, userChannels, timers, confirmed>>
    /\ UNCHANGED healthVars

\* socket.on('audioData')
AudioData(s, d) ==
    /\ conn[s] = "open"
    /\ IF ~d.present \/ d.channelId = ""
       THEN sent' = <<>>
       ELSE IF NotInChannel(s, d.channelId)
       THEN sent' = <<>>
       ELSE sent' = <<SocketToEmit(rooms, s, d.channelId, "audioData", s, "",
                                   ToFullUrl(d.uri))>>
    /\ last' = Event("audioData", s, d.channelId, "")
    /\ UNCHANGED <<conn, rooms, userChannels, timers, confirmed>>
    /\ UNCHANGED healthVars

\* socket.on('ping')
Ping(s) ==
    /\ conn[s] = "open"
    /\ sent' = <<SocketEmit(conn, s, "pong", "", "", "", <<>>, "")>>
    /\ last' = Event("ping", s, "", "")
    /\ UNCHANGED <<conn, rooms, userChannels, timers, confirmed>>
    /\ UNCHANGED healthVars

\* Mutant: only the first channel is notified.
LeftNoticesFirst(rm, s, chans) ==
    [i \in 1..(IF chans = <<>> THEN 0 ELSE 1) |-> IoToEmit(rm, chans[i], "userLeft", s, "", "")]

\* userChannels.forEach(channelId => io.to(channelId).emit('userLeft', socket.id))
LeftNotices(rm, s, chans) ==
    [i \in 1..Len(chans) |-> IoToEmit(rm, chans[i], "userLeft", s, "", "")]

\* socket.on('disconnect'): the socket has already left every room.
Disconnect(s) ==
    /\ conn[s] = "open"
    /\ conn' = [conn EXCEPT ![s] = "closed"]
    /\ rooms' = RoomLeaveAll(rooms, s)
    /\ sent' = LeftNotices(rooms', s, userChannels[s])
    /\ userChannels' = [userChannels EXCEPT ![s] = <<>>]
    /\ last' = Event("disconnect", s, "", "")
    /\ UNCHANGED <<timers, confirmed>>
    /\ UNCHANGED healthVars

Next ==
    \/ \E s \in Sockets : Connect(s)
    \/ \E s \in Sockets, x \in ChannelInputs : JoinChannel(s, x)
    \/ JoinTimer
    \/ \E s \in Sockets, x \in ChannelInputs : LeaveChannel(s, x)
    \/ \E s \in Sockets, d \in PttInputs : PttStatus(s, d)
    \/ \E s \in Sockets, d \in AudioInputs : AudioData(s, d)
    \/ \E s \in Sockets : Ping(s)
    \/ \E s \in Sockets : Disconnect(s)

Spec == Init /\ [][Next]_vars

\* ------------------------------------------------ claims on the multi-channel backend
InRoom(s, c) == SetHas(rooms[c], s)

\* The emissions of the last event that carry event ev.
SentOf(msgs, ev) == {i \in 1..Len(msgs) : msgs[i].ev = ev}

\* s is in c's member set exactly once and has been sent joinConfirmation(c, true).
Settled(s, c) == Count(rooms[c], s) = 1 /\ <<s, c>> \in confirmed

\* The last event was s leaving c or s disconnecting.
OwnExit(s, c) ==
    /\ last.sock = s
    /\ \/ last.op = "disconnect"
       \/ last.op = "leaveChannel" /\ last.ch = c

\* C1: every joinChannel of s for a valid channel c leaves s a member of c,
\* exactly once in the member set, with a successful confirmation sent; and
\* that stays so through every later event that is not s itself leaving c or
\* disconnecting (repeated joins, other connections' joins and leaves, timers).
C1_JoinEndsMember ==
    [][\A s \in Sockets, c \in Channels :
         (\/ last'.op = "joinChannel" /\ last'.sock = s /\ last'.ch = c
          \/ Settled(s, c) /\ ~OwnExit(s, c)')
         => Settled(s, c)']_vars

C1_Witness ==
    /\ last.op = "joinChannel"
    /\ Len(sent) = 2
    /\ Settled(last.sock, last.ch)
    /\ Len(rooms[last.ch]) = 2

\* C2: a pttStatus from a member of c is emitted exactly once, and delivered
\* to exactly the members of c at that moment, the sender among them.
C2_PttReachesMembers ==
    [][\A s \in Sockets, c \in Channels :
         (last'.op = "pttStatus" /\ last'.sock = s /\ last'.ch = c /\ InRoom(s, c))
         => /\ Len(sent') = 1
            /\ sent'[1].ev = "pttStatus"
            /\ sent'[1].userId = s
            /\ sent'[1].status = last'.st
            /\ \A m \in Sockets : m \in sent'[1].to <=> InRoom(m, c)
            /\ s \in sent'[1].to]_vars

C2_Witness ==
    /\ last.op = "pttStatus"
    /\ last.st = "true"
    /\ Len(sent) = 1
    /\ sent[1].to = Sockets
    /\ \E c \in Channels : c # last.ch /\ Len(rooms[c]) = 1

\* C3: a pttStatus or audioData naming a channel the sender is not a member of
\* delivers nothing and changes no state.
C3_NonMemberRejected ==
    [][\A s \in Sockets, c \in Channels :
         (last'.op \in {"pttStatus", "audioData"} /\ last'.sock = s /\ last'.ch = c
          /\ ~InRoom(s, c))
         => /\ sent' = <<>>
            /\ UNCHANGED <<conn, rooms, userChannels, timers, confirmed>>]_vars

C3_Witness ==
    /\ last.op = "audioData"
    /\ last.ch \in Channels
    /\ ~InRoom(last.sock, last.ch)
    /\ rooms[last.ch] # <<>>
    /\ <<last.sock, last.ch>> \in confirmed
    /\ sent = <<>>

\* C4: a disconnect of a member of N channels emits exactly N userLeft notices
\* naming it, one per channel, each delivered to the channel's remaining
\* members, and leaves the connection in no member set.
C4_DisconnectNotices ==
    [][\A s \in Sockets :
         (last'.op = "disconnect" /\ last'.sock = s)
         => LET N == {c \in Channels : InRoom(s, c)} IN
            /\ Len(sent') = Cardinality(N)
            /\ \A i \in 1..Len(sent') : sent'[i].ev = "userLeft" /\ sent'[i].userId = s
            /\ \A c \in N :
                 \E i \in 1..Len(sent') :
                    /\ sent'[i].room = c
                    /\ sent'[i].to = Range(rooms[c]) \ {s}
                    /\ \A j \in 1..Len(sent') : sent'[j].room = c => j = i
            /\ \A c \in Channels : ~InRoom(s, c)']_vars

C4_Witness ==
    /\ last.op = "disconnect"
    /\ Len(sent) = 2
    /\ \A i \in 1..2 : sent[i].ev = "userLeft" /\ sent[i].to # {}

\* C5: a first successful join sends the joiner joinConfirmation(success=true)
\* alone; activeUsers reaches the joiner and userJoined the other members only
\* in the later timer step, after that confirmation, and userJoined never
\* reaches the joiner.
C5_ConfirmationFirst ==
    [][/\ \A s \in Sockets, c \in Channels :
            (last'.op = "joinChannel" /\ last'.sock = s /\ last'.ch = c /\ ~InRoom(s, c))
            => /\ Len(sent') = 1
               /\ sent'[1].ev = "joinConfirmation"
               /\ sent'[1].status = "true"
               /\ sent'[1].channelId = c
               /\ sent'[1].to = {s}
       /\ \A i \in SentOf(sent', "userJoined") :
            /\ last'.op = "joinTimer"
            /\ sent'[i].userId = last'.sock
            /\ <<last'.sock, last'.ch>> \in confirmed
            /\ sent'[i].to = Range(rooms[last'.ch]) \ {last'.sock}
       /\ \A i \in SentOf(sent', "activeUsers") :
            \A s \in sent'[i].to :
               \/ last'.op = "joinTimer" /\ s = last'.sock
                    /\ <<s, last'.ch>> \in confirmed
               \/ \E j \in 1..(i - 1) :
                    /\ sent'[j].ev = "joinConfirmation"
                    /\ sent'[j].status = "true"
                    /\ sent'[j].to = {s}]_vars

C5_Witness ==
    /\ last.op = "joinTimer"
    /\ Len(sent) = 2
    /\ sent[1].ev = "activeUsers" /\ sent[1].to = {last.sock}
    /\ sent[2].ev = "userJoined" /\ sent[2].to # {}

\* ================================================== health-checked backend
InitHealth ==
    /\ conn = [s \in Sockets |-> "new"]
    /\ rooms = [c \in Channels |-> <<>>]
    /\ userChannels = [s \in Sockets |-> <<>>]
    /\ timers = <<>>
    /\ sent = <<>>
    /\ last = Event("init", "", "", "")
    /\ confirmed = {}
    /\ server = "up"
    /\ activeKeys = <<>>
    /\ activeChannels = [c \in Channels |-> <<>>]
    /\ lastActivity = [s \in Sockets |-> 0]
    /\ healthCheck = [s \in Sockets |-> -1]
    /\ now = 0
    /\ pending = <<>>
    /\ uploadedFiles = <<>>
    /\ disk = <<>>
    /\ cleanupTimer = -1
    /\ audioCleanup = -1
    /\ inflight = {}
    /\ created = <<>>
    /\ rejected = {}
    /\ channels = <<>>
    /\ users = <<>>
    /\ variant = "health"
    /\ client = ClientStart("freq-446.00")

\* Mutant: an inbound message leaves the activity time as it was.
UpdateActivityNever(s) == lastActivity

\* const updateActivity = () => { lastActivity = Date.now(); }; socket.onAny(updateActivity)
UpdateActivity(s) == [lastActivity EXCEPT ![s] = now]

\* activeChannels[c].filter(id => id !== socket.id), when activeChannels[c] exists
ActiveFilter(ac, s, c) == IF c \in DOMAIN ac THEN [ac EXCEPT ![c] = SetDelete(@, s)] ELSE ac

\* Object.keys(socket.rooms): socket.rooms is a Set (socket.io 3 and later, which
\* the { Server } import and socket.onAny need), and a Set has no own
\* enumerable keys.
SocketRoomKeys(s) == <<>>

\* Object.keys(socket.rooms).forEach(room => { if (room !== socket.id) {...} }):
\* leave each room, notify it, and filter activeChannels[room].
RECURSIVE LeaveRooms(_, _, _, _)
LeaveRooms(rm, ac, s, list) ==
    IF list = <<>>
    THEN [rooms |-> rm, active |-> ac, msgs |-> <<>>]
    ELSE LET rm1 == RoomLeave(rm, s, Head(list))
             rest == LeaveRooms(rm1, ActiveFilter(ac, s, Head(list)), s, Tail(list))
         IN [rest EXCEPT !.msgs = <<IoToEmit(rm1, Head(list), "userLeft", s, "", "")>> \o @]

\* The history of the pending timers once the rooms have become rm.
Stayed(pend, tm, rm) ==
    [i \in 1..Len(pend) |->
        pend[i] \cap Range(RoomOf(rm, tm[i].channelId))]

\* Mutant: the synthetic PTT-off is not sent to the uploader itself.
PttOffOthers(rm, s, c) == SocketToEmit(rm, s, c, "pttStatus", s, "false", "")

\* io.to(channelId).emit('pttStatus', { userId: socket.id, status: false })
PttOff(rm, s, c) == IoToEmit(rm, c, "pttStatus", s, "false", "")

\* Mutant: the threshold is taken twice as long.
InactiveLate(s) == now - lastActivity[s] > 2 * HEALTH_TIMEOUT_MS

\* const inactiveTime = Date.now() - lastActivity; if (inactiveTime > 60000)
Inactive(s) == now - lastActivity[s] > HEALTH_TIMEOUT_MS

\* Mutant: a release is treated like a press and relayed once.
IsPttOffNever(d) == FALSE

\* if (status === false)
IsPttOff(d) == d.status = "false"

\* io.on('connection'): lastActivity and the health-check interval are set up.
HConnect(s) ==
    /\ server = "up"
    /\ conn[s] = "new"
    /\ conn' = [conn EXCEPT ![s] = "open"]
    /\ lastActivity' = UpdateActivity(s)
    /\ healthCheck' = [healthCheck EXCEPT ![s] = now + HEALTH_INTERVAL_MS]
    /\ sent' = <<>>
    /\ last' = Event("connect", s, "", "")
    /\ UNCHANGED <<rooms, userChannels, timers, confirmed, server, activeKeys,
                   activeChannels, now>>
    /\ UNCHANGED pending
    /\ UNCHANGED farVars

\* An exception no handler catches ends the process: every connection closes,
\* no handler runs again and no pending timer fires.
Crash(op, s) ==
    /\ server' = "crashed"
    /\ conn' = [x \in Sockets |-> IF conn[x] = "open" THEN "closed" ELSE conn[x]]
    /\ rooms' = [c \in Channels |-> <<>>]
    /\ timers' = <<>>
    /\ healthCheck' = [x \in Sockets |-> -1]
    /\ sent' = <<>>
    /\ last' = Event(op, s, "", "crash")
    /\ UNCHANGED <<userChannels, confirmed, activeKeys, activeChannels, now>>
    /\ pending' = <<>>
    /\ UNCHANGED farVars

\* socket.on('joinChannel')
HJoinChannel(s, x) ==
    /\ server = "up"
    /\ conn[s] = "open"
    /\ lastActivity' = UpdateActivity(s)
    /\ IF InvalidChannelId(x)
       THEN /\ sent' = <<WithError(SocketEmit(conn, s, "joinConfirmation", "", x.v,
                                              "false", <<>>, ""),
                                   "Invalid channel ID")>>
            /\ UNCHANGED <<rooms, activeKeys, activeChannels>>
       ELSE LET left == LeaveRooms(rooms, activeChannels, s, SocketRoomKeys(s))
                rm == RoomJoin(left.rooms, s, x.v)
                ac == [left.active EXCEPT
                          ![x.v] = IF SetHas(@, s) THEN @ ELSE Append(@, s)]
            IN /\ rooms' = rm
               /\ activeKeys' = SetAdd(activeKeys, x.v)
               /\ activeChannels' = ac
               /\ sent' = left.msgs \o
                     <<IoToEmit(rm, x.v, "userJoined", s, "", ""),
                       SocketEmit(conn, s, "activeUsers", "", "", "", ac[x.v], ""),
                       SocketEmit(conn, s, "joinConfirmation", "", x.v, "true", <<>>, "")>>
    /\ last' = Event("joinChannel", s, IF InvalidChannelId(x) THEN "" ELSE x.v, "")
    /\ UNCHANGED <<conn, userChannels, timers, confirmed, server, healthCheck, now>>
    /\ UNCHANGED pending
    /\ UNCHANGED farVars

\* socket.on('leaveChannel')
HLeaveChannel(s, x) ==
    /\ server = "up"
    /\ conn[s] = "open"
    /\ lastActivity' = UpdateActivity(s)
    /\ rooms' = RoomLeave(rooms, s, x.v)
    /\ sent' = <<IoToEmit(rooms', x.v, "userLeft", s, "", "")>>
    /\ activeChannels' = ActiveFilter(activeChannels, s, x.v)
    /\ last' = Event("leaveChannel", s, x.v, "")
    /\ UNCHANGED <<conn, userChannels, timers, confirmed, server, activeKeys,
                   healthCheck, now>>
    /\ pending' = Stayed(pending, timers, rooms')
    /\ UNCHANGED farVars

\* socket.on('audioData', ({ channelId, data }) => ...)
HAudioData(s, d) ==
    /\ server = "up"
    /\ conn[s] = "open"
    /\ IF ~d.present
       THEN /\ Crash("audioData", s)
            /\ lastActivity' = UpdateActivity(s)
       ELSE /\ lastActivity' = UpdateActivity(s)
            /\ IF d.uri = ""
               THEN /\ sent' = <<WithError(SocketEmit(conn, s, "audioAck", "", "", "false",
                                                      <<>>, ""),
                                           "Invalid audio data")>>
                    /\ UNCHANGED <<timers, pending>>
               ELSE /\ Len(timers) < MaxTimers
                    /\ sent' = <<PttOff(rooms, s, d.channelId)>>
                    /\ timers' = Append(timers,
                                        Timer("audio", s, d.channelId, <<>>, "", d.uri))
                    /\ pending' = Append(pending,
                                         Range(RoomOf(rooms, d.channelId)) \ sent'[1].to)
            /\ last' = Event("audioData", s, d.channelId, d.uri)
            /\ UNCHANGED <<conn, rooms, server, healthCheck>>
    /\ UNCHANGED <<userChannels, confirmed, activeKeys, activeChannels, now, farVars>>

\* socket.on('pttStatus', ({ channelId, status, message }) => ...)
HPttStatus(s, d) ==
    /\ server = "up"
    /\ conn[s] = "open"
    /\ IF ~d.present
       THEN /\ Crash("pttStatus", s)
            /\ lastActivity' = UpdateActivity(s)
       ELSE /\ lastActivity' = UpdateActivity(s)
            /\ IF IsPttOff(d)
               THEN /\ Len(timers) < MaxTimers
                    /\ sent' = <<IoToEmit(rooms, d.channelId, "pttStatus", s, d.status, ""),
                                 SocketEmit(conn, s, "pttAck", "", d.channelId, "false",
                                            <<>>, "")>>
                    /\ timers' = Append(timers,
                                        Timer("ptt", s, d.channelId, <<>>, d.status, ""))
                    /\ pending' = Append(pending,
                                         Range(RoomOf(rooms, d.channelId)) \ sent'[1].to)
               ELSE /\ sent' = <<IoToEmit(rooms, d.channelId, "pttStatus", s, d.status, "")>>
                    /\ UNCHANGED <<timers, pending>>
            /\ last' = Event("pttStatus", s, d.channelId, d.status)
            /\ UNCHANGED <<conn, rooms, server, healthCheck>>
    /\ UNCHANGED <<userChannels, confirmed, activeKeys, activeChannels, now, farVars>>

\* The setTimeout callbacks of pttStatus and audioData, 200 ms after the request.
HTimer ==
    /\ server = "up"
    /\ timers # <<>>
    /\ LET t == timers[1] IN
        /\ sent' = IF t.kind = "ptt"
                   THEN <<IoToEmit(rooms, t.channelId, "pttStatus", t.sock, t.status, "")>>
                   ELSE <<IoToEmit(rooms, t.channelId, "audioData", t.sock, "", t.uri),
                          SocketEmit(conn, t.sock, "audioAck", "", t.channelId, "true",
                                     <<>>, "")>>
        /\ last' = Event(IF t.kind = "ptt" THEN "pttTimer" ELSE "audioTimer",
                         t.sock, t.channelId, t.status)
    /\ timers' = Tail(timers)
    /\ UNCHANGED <<conn, rooms, userChannels, confirmed, server, activeKeys,
                   activeChannels, lastActivity, healthCheck, now>>
    /\ pending' = Tail(pending)
    /\ UNCHANGED farVars

\* socket.on('ping')
HPing(s) ==
    /\ server = "up"
    /\ conn[s] = "open"
    /\ lastActivity' = UpdateActivity(s)
    /\ sent' = <<SocketEmit(conn, s, "pong", "", "", "", <<>>, "")>>
    /\ last' = Event("ping", s, "", "")
    /\ UNCHANGED <<conn, rooms, userChannels, timers, confirmed, server, activeKeys,
                   activeChannels, healthCheck, now>>
    /\ UNCHANGED pending
    /\ UNCHANGED farVars

\* Mutant: the interval of a closed connection goes on.
ClearIntervalKept(hc, s) == hc

\* clearInterval(healthCheckInterval): -1 stands for no interval.
ClearInterval(hc, s) == [hc EXCEPT ![s] = -1]

\* socket.on('disconnect'): socket.io has removed the socket from every room;
\* the handler clears the interval, filters activeChannels and notifies.
Disconnected(s, op) ==
    /\ conn' = [conn EXCEPT ![s] = "closed"]
    /\ rooms' = RoomLeaveAll(rooms, s)
    /\ healthCheck' = ClearInterval(healthCheck, s)
    /\ activeChannels' = [c \in Channels |-> SetDelete(activeChannels[c], s)]
    /\ sent' = LeftNotices(rooms', s,
                           SelectSeq(activeKeys, LAMBDA c : SetHas(activeChannels[c], s)))
    /\ last' = Event(op, s, "", "disconnect")
    /\ UNCHANGED <<userChannels, timers, confirmed, server, activeKeys, lastActivity, now>>
    /\ pending' = Stayed(pending, timers, rooms')
    /\ UNCHANGED farVars

\* The client closes the connection.
HDisconnect(s) ==
    /\ server = "up"
    /\ conn[s] = "open"
    /\ Disconnected(s, "disconnect")

\* const healthCheckInterval = setInterval(() => {...}, 30000)
HealthCheck(s) ==
    /\ server = "up"
    /\ healthCheck[s] = now
    /\ IF Inactive(s)
       THEN Disconnected(s, "healthCheck")
       ELSE /\ healthCheck' = [healthCheck EXCEPT ![s] = now + HEALTH_INTERVAL_MS]
            /\ sent' = <<>>
            /\ last' = Event("healthCheck", s, "", "alive")
            /\ UNCHANGED <<conn, rooms, userChannels, timers, confirmed, server,
                           activeKeys, activeChannels, lastActivity, now, pending,
                           farVars>>

\* Time passes: every 200 ms timeout and every health check due has run.
Tick ==
    /\ server = "up"
    /\ now < MaxTicks * TickMs
    /\ timers = <<>>
    /\ \A s \in Sockets : healthCheck[s] # now
    /\ now' = now + TickMs
    /\ sent' = <<>>
    /\ last' = Event("tick", "", "", "")
    /\ UNCHANGED <<conn, rooms, userChannels, timers, confirmed, server, activeKeys,
                   activeChannels, lastActivity, healthCheck>>
    /\ UNCHANGED pending
    /\ UNCHANGED farVars

\* Payloads sent to the health-checked backend: absent, or an object naming a channel.
HPttInputs == {NoData} \cup {Data(c, st, "") : c \in Channels, st \in {"true", "false"}}
HAudioInputs == {NoData} \cup {Data(c, "", u) : c \in Channels, u \in {""} \cup PathUris}
HLeaveInputs == {Str(c) : c \in Channels} \cup {Undefined}

\* The relay of the health-checked backend: every handler and timeout, with the
\* clock held (the liveness monitor is followed in SpecLive).
NextHealth ==
    \/ \E s \in Sockets : HConnect(s)
    \/ \E s \in Sockets, x \in ChannelInputs : HJoinChannel(s, x)
    \/ \E s \in Sockets, x \in HLeaveInputs : HLeaveChannel(s, x)
    \/ \E s \in Sockets, d \in HAudioInputs : HAudioData(s, d)
    \/ \E s \in Sockets, d \in HPttInputs : HPttStatus(s, d)
    \/ HTimer
    \/ \E s \in Sockets : HPing(s)
    \/ \E s \in Sockets : HDisconnect(s)

SpecHealth == InitHealth /\ [][NextHealth]_vars

\* The liveness monitor of the health-checked backend: connections, membership,
\* inbound messages, the per-connection health check and the clock.
NextLive ==
    \/ \E s \in Sockets : HConnect(s)
    \/ \E s \in Sockets, c \in Channels : HJoinChannel(s, Str(c))
    \/ \E s \in Sockets, c \in Channels : HLeaveChannel(s, Str(c))
    \/ \E s \in Sockets : HPing(s)
    \/ \E s \in Sockets : HDisconnect(s)
    \/ \E s \in Sockets : HealthCheck(s)
    \/ Tick

SpecLive == InitHealth /\ [][NextLive]_vars
\* ------------------------------------------------ claims on the health-checked backend
\* The members of room c.
Members(c) == Range(RoomOf(rooms, c))

\* C6: an audioData with a uri emits pttStatus({A, false}) to the channel and
\* no audioData yet, and sets the one timeout that emits audioData({A, uri});
\* audioData is emitted by that timeout alone, to every member of the channel,
\* and every connection that was in the channel from the request until then was
\* delivered the pttStatus(false) at the request.
C6_PttOffBeforeAudio ==
    [][/\ (last'.op = "audioData" /\ last'.st \in PathUris)
          => /\ Len(sent') = 1
             /\ sent'[1].ev = "pttStatus"
             /\ sent'[1].userId = last'.sock
             /\ sent'[1].status = "false"
             /\ sent'[1].to = Members(last'.ch)
             /\ timers' = Append(timers, Timer("audio", last'.sock, last'.ch, <<>>, "",
                                               last'.st))
       /\ \A i \in SentOf(sent', "audioData") :
            /\ last'.op = "audioTimer"
            /\ timers # <<>> /\ timers[1].kind = "audio"
            /\ sent'[i].userId = timers[1].sock
            /\ sent'[i].uri = timers[1].uri
            /\ sent'[i].to = Members(timers[1].channelId)
            /\ pending[1] = {}]_vars

C6_Witness ==
    /\ last.op = "audioTimer"
    /\ sent # <<>>
    /\ sent[1].ev = "audioData"
    /\ sent[1].to = Sockets

\* C7: a pttStatus request with status=false is relayed once when handled and
\* once more by the one timeout it sets; a request with status=true is relayed
\* once and sets no timeout.
C7_PttOffTwice ==
    [][/\ (last'.op = "pttStatus" /\ last'.st = "false")
          => /\ Cardinality(SentOf(sent', "pttStatus")) = 1
             /\ sent'[1].ev = "pttStatus"
             /\ sent'[1].userId = last'.sock
             /\ sent'[1].status = "false"
             /\ sent'[1].to = Members(last'.ch)
             /\ timers' = Append(timers, Timer("ptt", last'.sock, last'.ch, <<>>,
                                               "false", ""))
       /\ (last'.op = "pttStatus" /\ last'.st = "true")
          => /\ Len(sent') = 1
             /\ sent'[1].ev = "pttStatus"
             /\ sent'[1].userId = last'.sock
             /\ sent'[1].status = "true"
             /\ sent'[1].to = Members(last'.ch)
             /\ timers' = timers
       /\ (last'.op = "pttTimer")
          => /\ timers # <<>> /\ timers[1].kind = "ptt"
             /\ timers' = Tail(timers)
             /\ Len(sent') = 1
             /\ sent'[1].ev = "pttStatus"
             /\ sent'[1].userId = timers[1].sock
             /\ sent'[1].status = "false"
             /\ sent'[1].to = Members(timers[1].channelId)]_vars

C7_Witness ==
    /\ last.op = "pttTimer"
    /\ Len(sent) = 1
    /\ sent[1].status = "false"
    /\ sent[1].to = Sockets

\* C10: a health check that finds its connection inactive for more than 60 s
\* disconnects it, sends userLeft for it to the remaining members of every
\* channel it was in and leaves it in no member list; and an open connection
\* that has been inactive for more than 60 s has a health check due within the
\* next 30 s, so it is never inactive for more than 90 s.
C10_ZombieDisconnected ==
    /\ [](\A s \in Sockets :
            (conn[s] = "open" /\ now - lastActivity[s] > HEALTH_TIMEOUT_MS)
            => /\ healthCheck[s] >= now
               /\ healthCheck[s] - now <= HEALTH_INTERVAL_MS
               /\ healthCheck[s] - lastActivity[s] <= HEALTH_TIMEOUT_MS + HEALTH_INTERVAL_MS)
    /\ [][\A s \in Sockets :
            (last'.op = "healthCheck" /\ last'.sock = s
             /\ now - lastActivity[s] > HEALTH_TIMEOUT_MS)
            => LET N == {c \in Channels : InRoom(s, c)} IN
               /\ conn'[s] = "closed"
               /\ Len(sent') = Cardinality(N)
               /\ \A c \in N :
                    \E i \in 1..Len(sent') :
                       /\ sent'[i].ev = "userLeft"
                       /\ sent'[i].userId = s
                       /\ sent'[i].room = c
                       /\ sent'[i].to = Members(c) \ {s}
               /\ \A c \in Channels :
                    ~InRoom(s, c)' /\ ~SetHas(activeChannels'[c], s)]_vars

C10_Witness ==
    /\ last.op = "healthCheck"
    /\ last.st = "disconnect"
    /\ Len(sent) = 2
    /\ \A i \in 1..2 : sent[i].ev = "userLeft" /\ sent[i].to # {}
\* ============================================================ media store
\* A file name: `${Date.now()}-${Math.round(Math.random() * 1E9)}${ext}`.
FileName(ms, rnd, ext) == [t |-> ms, r |-> rnd, ext |-> ext]

\* Math.round(Math.random() * 1E9), two of its values.
Randoms == {1, 2}

\* path.extname(file.originalname || '.m4a') of the recordings the app sends.
Exts == {".m4a"}

\* A function without the keys in gone.
Without(f, gone) == [n \in DOMAIN f \ gone |-> f[n]]

\* Mutant: the age limit of cleanupOldAudioFiles is used.
ExpiredLate(age) == age > AUDIO_MAX_AGE_MS

\* if (age > FILE_MAX_AGE_MS)
Expired(age) == age > FILE_MAX_AGE_MS

\* Mutant: the directory is not scanned for untracked files.
CleanupTrackedOnly(files, tracked, ms) ==
    LET old == {n \in DOMAIN tracked : Expired(ms - tracked[n])}
    IN [disk |-> Without(files, old), tracked |-> Without(tracked, old)]

\* cleanupOldFiles() at time ms: tracked files past the age limit are unlinked
\* and untracked; then every untracked file of the directory is unlinked if its
\* mtime is past the limit and tracked under its mtime otherwise.
CleanupOldFiles(files, tracked, ms) ==
    LET old == {n \in DOMAIN tracked : Expired(ms - tracked[n])}
        tracked1 == Without(tracked, old)
        files1 == Without(files, old)
        stale == {n \in DOMAIN files1 \ DOMAIN tracked1 : Expired(ms - files1[n])}
        files2 == Without(files1, stale)
    IN [disk |-> files2,
        tracked |-> [n \in DOMAIN tracked1 \cup DOMAIN files2 |->
                        IF n \in DOMAIN tracked1 THEN tracked1[n] ELSE files2[n]]]

\* hasAudioFiles(): files.length > 0 && files.some(file => file.endsWith('.m4a'))
HasAudioFiles(files) == \E n \in DOMAIN files : n.ext = ".m4a"

\* What a previous run of the server may have left in the uploads directory.
Leftover == FileName(-1, 0, ".m4a")
LeftoverDisks ==
    {<<>>} \cup {[n \in {Leftover} |-> m] :
                   m \in {0 - FILE_MAX_AGE_MS - MediaTickMs, 0 - MediaTickMs}}

InitMedia ==
    /\ conn = [s \in Sockets |-> "new"]
    /\ rooms = [c \in Channels |-> <<>>]
    /\ userChannels = [s \in Sockets |-> <<>>]
    /\ timers = <<>>
    /\ sent = <<>>
    /\ last = Event("init", "", "", "")
    /\ confirmed = {}
    /\ server = "up"
    /\ activeKeys = <<>>
    /\ activeChannels = [c \in Channels |-> <<>>]
    /\ lastActivity = [s \in Sockets |-> 0]
    /\ healthCheck = [s \in Sockets |-> -1]
    /\ now = 0
    /\ pending = <<>>
    /\ uploadedFiles = <<>>
    /\ disk \in LeftoverDisks
    /\ cleanupTimer = -1
    /\ audioCleanup = -1
    /\ inflight = {}
    /\ created = <<>>
    /\ rejected = {}
    /\ channels = <<>>
    /\ users = <<>>
    /\ variant = "multi"
    /\ client = ClientStart("freq-446.00")

\* Server start: cleanupInterval is set, cleanupOldFiles() runs once, and the
\* listen callback runs setupAudioCleanup().
Startup ==
    /\ cleanupTimer = -1
    /\ LET swept == CleanupOldFiles(disk, uploadedFiles, now) IN
        /\ disk' = swept.disk
        /\ uploadedFiles' = swept.tracked
        /\ audioCleanup' = IF HasAudioFiles(swept.disk)
                            THEN now + AUDIO_CLEANUP_INTERVAL_MS ELSE -1
    /\ cleanupTimer' = now + CLEANUP_INTERVAL_MS
    /\ last' = Event("startup", "", "", DOMAIN disk \ DOMAIN disk')
    /\ UNCHANGED <<socketVars, now, inflight, created, rejected>>

\* f with key n set to v.
Put(f, n, v) == [k \in DOMAIN f \cup {n} |-> IF k = n THEN v ELSE f[k]]

\* app.post('/upload') hands the request to upload.single('audio'): the storage
\* engine names the file and starts to write it into the uploads directory.
UploadBegin(rnd, ext) ==
    /\ cleanupTimer # -1
    /\ now <= MaxUploadTicks * MediaTickMs
    /\ LET name == FileName(now, rnd, ext) IN
        /\ \/ name \in inflight \cup DOMAIN created \cup rejected
           \/ Cardinality(inflight \cup DOMAIN created \cup rejected) < MaxUploads
        /\ disk' = Put(disk, name, now)
        /\ inflight' = inflight \cup {name}
    /\ last' = Event("uploadBegin", "", "", "")
    /\ UNCHANGED <<socketVars, now, uploadedFiles, cleanupTimer, audioCleanup, created,
                   rejected>>

\* More of the request body arrives and is written: the file's mtime moves on.
\* A file unlinked meanwhile stays unlinked.
UploadWrite(name) ==
    /\ name \in inflight
    /\ name \in DOMAIN disk
    /\ disk[name] # now
    /\ disk' = Put(disk, name, now)
    /\ last' = Event("uploadWrite", "", "", "")
    /\ UNCHANGED <<socketVars, now, uploadedFiles, cleanupTimer, audioCleanup, inflight,
                   created, rejected>>

\* limits: { fileSize: 10 * 1024 * 1024 }
FILE_SIZE_LIMIT == 10 * 1024 * 1024

\* The sizes of an uploaded file: at the limit, one byte over it.
FileSizes == {FILE_SIZE_LIMIT, FILE_SIZE_LIMIT + 1}

\* The file stream is cut, and the request fails, once more bytes than the
\* limit have arrived.
TooLarge(size) == size > FILE_SIZE_LIMIT

\* res.json(...) / res.status(400).json(...) of the upload handler.
Response(success, error, fileName, fileSize) ==
    [success |-> success, error |-> error, fileName |-> fileName, fileSize |-> fileSize]

\* Mutant: the upload is not entered into the tracking map.
SetUploadedNever(tracked, name, ms) == tracked

\* uploadedFiles.set(req.file.filename, Date.now())
SetUploaded(tracked, name, ms) == Put(tracked, name, ms)

\* The body is complete and the callback of upload.single runs with req.file
\* set: uploadedFiles.set(req.file.filename, Date.now()) and a success response.
UploadDone(name, size) ==
    /\ name \in inflight
    /\ ~TooLarge(size)
    /\ inflight' = inflight \ {name}
    /\ uploadedFiles' = SetUploaded(uploadedFiles, name, now)
    /\ created' = Put(created, name, now)
    /\ last' = Event("uploadDone", "", "", Response(TRUE, "", name, size))
    /\ UNCHANGED <<socketVars, now, disk, cleanupTimer, audioCleanup, rejected>>

\* The file outgrows the limit: multer unlinks what it has written and calls
\* back with its LIMIT_FILE_SIZE error, which the handler answers with 400.
UploadTooLarge(name, size) ==
    /\ name \in inflight
    /\ TooLarge(size)
    /\ inflight' = inflight \ {name}
    /\ disk' = Without(disk, {name})
    /\ last' = Event("uploadTooLarge", "", "", Response(FALSE, "File too large", "", 0))
    /\ rejected' = rejected \cup {name}
    /\ UNCHANGED <<socketVars, now, uploadedFiles, cleanupTimer, audioCleanup, created>>

\* A request without a file part: nothing is stored, req.file is undefined and
\* the handler answers with 400.
UploadNoFile ==
    /\ cleanupTimer # -1
    /\ last.op # "uploadNoFile"
    /\ last' = Event("uploadNoFile", "", "", Response(FALSE, "No file uploaded", "", 0))
    /\ UNCHANGED <<socketVars, now, mediaVars>>

\* setInterval(cleanupOldFiles, CLEANUP_INTERVAL_MS)
CleanupSweep ==
    /\ cleanupTimer = now
    /\ LET swept == CleanupOldFiles(disk, uploadedFiles, now) IN
        /\ disk' = swept.disk
        /\ uploadedFiles' = swept.tracked
    /\ cleanupTimer' = now + CLEANUP_INTERVAL_MS
    /\ last' = Event("cleanup", "", "", DOMAIN disk \ DOMAIN disk')
    /\ UNCHANGED <<socketVars, now, audioCleanup, inflight, created, rejected>>

\* setInterval(() => cleanupOldAudioFiles(), 4 * 60 * 1000)
CleanupOldAudioFiles ==
    /\ audioCleanup = now
    /\ disk' = Without(disk, {n \in DOMAIN disk :
                                n.ext = ".m4a" /\ now - disk[n] > AUDIO_MAX_AGE_MS})
    /\ audioCleanup' = now + AUDIO_CLEANUP_INTERVAL_MS
    /\ last' = Event("audioCleanup", "", "", DOMAIN disk \ DOMAIN disk')
    /\ UNCHANGED <<socketVars, now, uploadedFiles, cleanupTimer, inflight, created, rejected>>

\* Time passes: every sweep due has run.
MediaTick ==
    /\ cleanupTimer \notin {-1, now}
    /\ audioCleanup # now
    /\ now < MaxMediaTicks * MediaTickMs
    /\ now' = now + MediaTickMs
    /\ last' = Event("tick", "", "", "")
    /\ UNCHANGED <<socketVars, mediaVars>>

NextMedia ==
    \/ Startup
    \/ \E rnd \in Randoms, ext \in Exts : UploadBegin(rnd, ext)
    \/ \E name \in inflight : UploadWrite(name)
    \/ \E name \in inflight, size \in FileSizes : UploadDone(name, size)
    \/ \E name \in inflight, size \in FileSizes : UploadTooLarge(name, size)
    \/ UploadNoFile
    \/ CleanupSweep
    \/ CleanupOldAudioFiles
    \/ MediaTick

SpecMedia == InitMedia /\ [][NextMedia]_vars

\* ---------------------------------------------------- claims on the media store
\* The steps that unlink files; last.st holds the names the step unlinked.
Sweeps == {"startup", "cleanup", "audioCleanup"}

\* The object named n has been uploaded and its recorded age is age.
Aged(n, age) == n \in DOMAIN created /\ now - created[n] = age

\* C8: a sweep leaves no uploaded object older than the TTL in storage or in
\* tracking, so none is in storage once its age exceeds TTL + sweep interval.
C8_ExpiredSwept ==
    /\ [](\A n \in DOMAIN created :
            now - created[n] > FILE_MAX_AGE_MS + CLEANUP_INTERVAL_MS
            => n \notin DOMAIN disk /\ n \notin DOMAIN uploadedFiles)
    /\ [][last'.op = "cleanup"
          => \A n \in DOMAIN created :
                now - created[n] > FILE_MAX_AGE_MS
                => n \notin DOMAIN disk' /\ n \notin DOMAIN uploadedFiles']_vars

\* An object that outlived the sweep at age TTL is unlinked by the next sweep.
C8_Witness ==
    /\ last.op = "cleanup"
    /\ \E n \in last.st : Aged(n, FILE_MAX_AGE_MS + CLEANUP_INTERVAL_MS)

\* C9: an uploaded object whose age is at most the TTL is in storage, whatever
\* uploads and sweeps have run.
C9_YoungKept ==
    \A n \in DOMAIN created :
        now - created[n] <= FILE_MAX_AGE_MS => n \in DOMAIN disk

Refused == last.op \in {"uploadTooLarge", "uploadNoFile"}

\* C18: an upload over the size limit or without a file is answered with
\* success=false and an error text, changes nothing in the tracking map and
\* emits nothing; a successful upload is answered with its file name and leaves
\* the tracking map with that name as a key and every other entry as it was.
C18_UploadTracked ==
    [][/\ Refused' => /\ ~last'.st.success
                      /\ last'.st.error # ""
                      /\ uploadedFiles' = uploadedFiles
                      /\ sent' = <<>> /\ timers' = timers
       /\ last'.op = "uploadDone"
            => /\ last'.st.success
               /\ DOMAIN uploadedFiles' = DOMAIN uploadedFiles \cup {last'.st.fileName}
               /\ uploadedFiles'[last'.st.fileName] = now
               /\ \A n \in DOMAIN uploadedFiles \ {last'.st.fileName} :
                     uploadedFiles'[n] = uploadedFiles[n]
               /\ sent' = <<>> /\ timers' = timers]_vars

\* An upload of one byte over the limit has been refused after an upload at the
\* limit was accepted and tracked.
C18_Witness ==
    /\ last.op = "uploadTooLarge"
    /\ rejected # {}
    /\ \E n \in DOMAIN uploadedFiles : n \in DOMAIN created

\* C20: every successful upload is stored under a name that no object uploaded
\* before it was stored under, uploads of the same millisecond included.
C20_NamesUnique ==
    [][last'.op = "uploadDone" => last'.st.fileName \notin DOMAIN created]_vars

\* ====================================================== Map-based backend
\* The ids a client may name a channel by: joinChannel is not validated, so a
\* missing argument names the room and the Map key undefined.
MChannelIds == Channels \cup {"undefined"}
MChannelInputs == {Str(c) : c \in Channels} \cup {Undefined}

\* What the Map-based backend's socket handlers do not touch.
mapFrame == <<userChannels, timers, confirmed, activeKeys, activeChannels, lastActivity,
              healthCheck, now, pending, mediaVars, variant, client>>

InitMap ==
    /\ conn = [s \in Sockets |-> "new"]
    /\ rooms = [c \in MChannelIds |-> <<>>]
    /\ userChannels = [s \in Sockets |-> <<>>]
    /\ timers = <<>>
    /\ sent = <<>>
    /\ last = Event("init", "", "", "")
    /\ confirmed = {}
    /\ server = "up"
    /\ activeKeys = <<>>
    /\ activeChannels = [c \in Channels |-> <<>>]
    /\ lastActivity = [s \in Sockets |-> 0]
    /\ healthCheck = [s \in Sockets |-> -1]
    /\ now = 0
    /\ pending = <<>>
    /\ uploadedFiles = <<>>
    /\ disk = <<>>
    /\ cleanupTimer = -1
    /\ audioCleanup = -1
    /\ inflight = {}
    /\ created = <<>>
    /\ rejected = {}
    /\ channels = <<>>
    /\ users = <<>>
    /\ variant = "map"
    /\ client = ClientStart("freq-446.00")

\* Mutant: the member is deleted from the Map entry but an empty entry is kept.
MapDeleteKeepsKey(chs, c, s) ==
    IF c \in DOMAIN chs THEN [chs EXCEPT ![c] = SetDelete(@, s)] ELSE chs

\* if (channels.has(c)) { channels.get(c).delete(s);
\*                        if (channels.get(c).size === 0) channels.delete(c) }
MapDelete(chs, c, s) ==
    IF c \notin DOMAIN chs THEN chs
    ELSE IF SetDelete(chs[c], s) = <<>> THEN Without(chs, {c})
    ELSE [chs EXCEPT ![c] = SetDelete(@, s)]

\* Mutant: the member is not recorded in the channels Map.
MapAddDropped(chs, c, s) == chs

\* if (!channels.has(c)) channels.set(c, new Set()); channels.get(c).add(s)
MapAdd(chs, c, s) ==
    IF c \in DOMAIN chs THEN [chs EXCEPT ![c] = SetAdd(@, s)] ELSE Put(chs, c, <<s>>)

\* userChannels.forEach(channel => { socket.leave(channel); ... }) of joinChannel
\* and the forEach of disconnect: the rooms and the channels Map afterwards.
RECURSIVE LeaveEach(_, _, _, _)
LeaveEach(rm, chs, s, list) ==
    IF list = <<>> THEN [rooms |-> rm, channels |-> chs]
    ELSE LeaveEach(RoomLeave(rm, s, Head(list)), MapDelete(chs, Head(list), s), s, Tail(list))

\* io.on('connection'): users.set(socket.id, { channels: new Set() })
MConnect(s) ==
    /\ server = "up"
    /\ conn[s] = "new"
    /\ conn' = [conn EXCEPT ![s] = "open"]
    /\ users' = Put(users, s, <<>>)
    /\ sent' = <<>>
    /\ last' = Event("connect", s, "", "")
    /\ UNCHANGED <<rooms, server, channels, mapFrame>>

\* socket.on('joinChannel'): leave the previous channels, join the new one and
\* notify the others in it.
MJoinChannel(s, x) ==
    /\ server = "up"
    /\ conn[s] = "open"
    /\ LET prev == IF s \in DOMAIN users
                   THEN LeaveEach(rooms, channels, s, users[s])
                   ELSE [rooms |-> rooms, channels |-> channels] IN
        /\ rooms' = RoomJoin(prev.rooms, s, x.v)
        /\ channels' = MapAdd(prev.channels, x.v, s)
    /\ users' = IF s \in DOMAIN users THEN [users EXCEPT ![s] = <<x.v>>] ELSE users
    /\ sent' = <<SocketToEmit(rooms', s, x.v, "userJoined", s, "", "")>>
    /\ last' = Event("joinChannel", s, x.v, "")
    /\ UNCHANGED <<conn, server, mapFrame>>

\* socket.on('leaveChannel')
MLeaveChannel(s, x) ==
    /\ server = "up"
    /\ conn[s] = "open"
    /\ rooms' = RoomLeave(rooms, s, x.v)
    /\ channels' = MapDelete(channels, x.v, s)
    /\ users' = IF s \in DOMAIN users THEN [users EXCEPT ![s] = SetDelete(@, x.v)] ELSE users
    /\ sent' = <<SocketToEmit(rooms', s, x.v, "userLeft", s, "", "")>>
    /\ last' = Event("leaveChannel", s, x.v, "")
    /\ UNCHANGED <<conn, server, mapFrame>>

\* An exception no handler catches ends the process of the Map-based backend.
MCrash(op, s) ==
    /\ server' = "crashed"
    /\ conn' = [x \in Sockets |-> IF conn[x] = "open" THEN "closed" ELSE conn[x]]
    /\ rooms' = [c \in MChannelIds |-> <<>>]
    /\ channels' = <<>>
    /\ users' = <<>>
    /\ sent' = <<>>
    /\ last' = Event(op, s, "", "crash")
    /\ UNCHANGED mapFrame

\* socket.on('audioData', ({ channelId, data }) => ...): destructuring an absent
\* payload throws; no channelId or no data returns; else io.to(channelId).emit.
MAudioData(s, d) ==
    /\ server = "up"
    /\ conn[s] = "open"
    /\ IF ~d.present
       THEN MCrash("audioData", s)
       ELSE /\ sent' = IF d.channelId = "" \/ d.uri = "" THEN <<>>
                       ELSE <<IoToEmit(rooms, d.channelId, "audioData", s, "", d.uri)>>
            /\ last' = Event("audioData", s, d.channelId, d.uri)
            /\ UNCHANGED <<conn, rooms, server, channels, users, mapFrame>>

\* socket.on('pttStatus', ({ channelId, status, timestamp }) => ...)
MPttStatus(s, d) ==
    /\ server = "up"
    /\ conn[s] = "open"
    /\ IF ~d.present
       THEN MCrash("pttStatus", s)
       ELSE /\ sent' = IF d.channelId = "" THEN <<>>
                       ELSE <<IoToEmit(rooms, d.channelId, "pttStatus", s, d.status, "")>>
            /\ last' = Event("pttStatus", s, d.channelId, d.status)
            /\ UNCHANGED <<conn, rooms, server, channels, users, mapFrame>>

\* socket.on('disconnect'): the socket has already left every room; each of its
\* channels that the Map still holds loses it and is sent userLeft.
MDisconnect(s) ==
    /\ server = "up"
    /\ conn[s] = "open"
    /\ conn' = [conn EXCEPT ![s] = "closed"]
    /\ rooms' = RoomLeaveAll(rooms, s)
    /\ LET list == IF s \in DOMAIN users
                   THEN SelectSeq(users[s], LAMBDA c : c \in DOMAIN channels) ELSE <<>> IN
        /\ channels' = LeaveEach(rooms', channels, s, list).channels
        /\ sent' = [i \in 1..Len(list) |->
                        SocketToEmit(rooms', s, list[i], "userLeft", s, "", "")]
    /\ users' = Without(users, {s})
    /\ last' = Event("disconnect", s, "", "")
    /\ UNCHANGED <<server, mapFrame>>

\* app.post('/audio-data'): a body without audioData or channelId is answered
\* with 400; otherwise the audio is saved as `${Date.now()}.wav` and its URL is
\* broadcast to the channel under the user id 'server'.
MPostAudioData(d) ==
    /\ server = "up"
    /\ sent' = IF d.uri = "" \/ d.channelId = "" THEN <<>>
               ELSE <<IoToEmit(rooms, d.channelId, "audioData", "server", "",
                               "http://host/uploads/" \o ToString(now) \o ".wav")>>
    /\ last' = Event("postAudioData", "", d.channelId, d.uri)
    /\ UNCHANGED <<conn, rooms, server, channels, users, mapFrame>>

NextMap ==
    \/ \E s \in Sockets : MConnect(s)
    \/ \E s \in Sockets, x \in MChannelInputs : MJoinChannel(s, x)
    \/ \E s \in Sockets, x \in MChannelInputs : MLeaveChannel(s, x)
    \/ \E s \in Sockets, d \in AudioInputs : MAudioData(s, d)
    \/ \E s \in Sockets, d \in PttInputs : MPttStatus(s, d)
    \/ \E d \in AudioInputs : MPostAudioData(d)
    \/ \E s \in Sockets : MDisconnect(s)

SpecMap == InitMap /\ [][NextMap]_vars

\* ================================================ the server, whichever backend
\* The server runs one of the three backends; the variant is fixed at start.
InitAny == Init \/ InitHealth \/ InitMap

NextAny ==
    \/ variant = "multi" /\ Next
    \/ variant = "health" /\ NextHealth
    \/ variant = "map" /\ NextMap

SpecAny == InitAny /\ [][NextAny]_vars

\* s is in the member set the Map-based backend keeps for channel c.
InChannelsMap(s, c) == c \in DOMAIN channels /\ SetHas(channels[c], s)

\* c is in the joined-channel set the Map-based backend keeps for s.
InUsersMap(s, c) == s \in DOMAIN users /\ SetHas(users[s], c)

\* C11: in the multi-channel backend a socket is in a channel's room iff the
\* channel is in its userChannels Set, and in the Map-based backend a socket is
\* in channels.get(c) iff c is in users.get(socket).channels.
C11_RosterConsistent ==
    /\ variant = "multi"
       => \A s \in Sockets, c \in Channels : InRoom(s, c) <=> SetHas(userChannels[s], c)
    /\ variant = "map"
       => \A s \in Sockets, c \in MChannelIds : InChannelsMap(s, c) <=> InUsersMap(s, c)

\* A socket of the Map-based backend has joined a channel another one is in.
C11_Witness ==
    /\ variant = "map"
    /\ last.op = "joinChannel"
    /\ \A s \in Sockets : InChannelsMap(s, last.ch) /\ InUsersMap(s, last.ch)

\* No emission of the list msgs is delivered to anybody.
Silent(msgs) == \A i \in 1..Len(msgs) : msgs[i].to = {}

\* C12: in the multi-channel backend a leaveChannel for a channel the socket is
\* not a member of changes no membership and delivers no event to anybody.
C12_NonMemberLeaveNoop ==
    [][(last'.op = "leaveChannel" /\ ~SetHas(userChannels[last'.sock], last'.ch))
       => /\ rooms' = rooms
          /\ userChannels' = userChannels
          /\ Silent(sent')]_vars

\* C13: in the multi-channel backend a joinChannel from a socket that is already
\* a member of the channel changes no membership and sets no timer; it emits
\* joinConfirmation(success=true) and activeUsers (the room's member list) to
\* the requester and nothing else.
C13_RejoinResends ==
    [][(last'.op = "joinChannel" /\ last'.ch \in Range(userChannels[last'.sock]))
       => /\ rooms' = rooms
          /\ userChannels' = userChannels
          /\ timers' = timers
          /\ Len(sent') = 2
          /\ sent'[1].ev = "joinConfirmation"
          /\ sent'[1].status = "true"
          /\ sent'[1].channelId = last'.ch
          /\ sent'[2].ev = "activeUsers"
          /\ sent'[2].users = rooms[last'.ch]
          /\ \A i \in 1..2 : sent'[i].to = {last'.sock}]_vars

\* A rejoin answered with a roster of two members.
C13_Witness ==
    /\ variant = "multi"
    /\ last.op = "joinChannel"
    /\ Len(sent) = 2
    /\ sent[2].ev = "activeUsers"
    /\ Len(sent[2].users) = 2

\* C14: in the multi-channel and the health-checked backend a joinChannel whose
\* id is empty or not a string emits one joinConfirmation(success=false) with an
\* error text, to the requester alone, and changes no room, no membership
\* record, no timer and no connection.
C14_InvalidJoinRejected ==
    [][(variant \in {"multi", "health"} /\ last'.op = "joinChannel" /\ last'.ch = "")
       => /\ Len(sent') = 1
          /\ sent'[1].ev = "joinConfirmation"
          /\ sent'[1].status = "false"
          /\ sent'[1].error # ""
          /\ sent'[1].to = {last'.sock}
          /\ UNCHANGED <<conn, server, rooms, userChannels, activeKeys, activeChannels,
                         timers>>]_vars

\* The health-checked backend has rejected a join while a channel has two members.
C14_Witness ==
    /\ variant = "health"
    /\ last.op = "joinChannel"
    /\ last.ch = ""
    /\ sent[1].status = "false"
    /\ \E c \in Channels : Len(rooms[c]) = 2

\* The last event is an audioData of a socket for a channel in its userChannels.
MemberAudio == last.op = "audioData" /\ last.ch \in Range(userChannels[last.sock])

\* C15 as stated: in the multi-channel backend an audioData from a member of a
\* channel is delivered to every member of the channel, the sender included,
\* and to nobody else.
C15_AudioReachesAll ==
    [][(variant = "multi" /\ MemberAudio')
       => /\ Len(sent') = 1
          /\ sent'[1].ev = "audioData"
          /\ sent'[1].to = Range(rooms[last'.ch])]_vars

\* C15 amended: the audioData is delivered to every member of the channel
\* except the sender, and to nobody else.
C15_AudioReachesOthers ==
    [][(variant = "multi" /\ MemberAudio')
       => /\ Len(sent') = 1
          /\ sent'[1].ev = "audioData"
          /\ sent'[1].userId = last'.sock
          /\ sent'[1].to = Range(rooms[last'.ch]) \ {last'.sock}]_vars

\* The audio of member s1 has been relayed to the other member and not to s1.
C15_Witness ==
    /\ variant = "multi"
    /\ MemberAudio
    /\ sent[1].to = {"s2"}
    /\ last.sock = "s1"

\* ================================================================ the app
\* useSocket and socketService.  The connection effect is taken to run on
\* mount and on a change of frequency, as its comment says; the server is
\* whatever answers (or does not answer) the app's emissions.
clientFrame == <<conn, rooms, userChannels, timers, confirmed, server, activeKeys,
                 activeChannels, lastActivity, healthCheck, now, pending, mediaVars,
                 mapVars, variant>>

\* The app is mounted: socketService.initialize() has created a socket that is
\* not connected yet.
InitClient == Init

\* this.socket.emit(ev, channelId)
ClientEmit(ev, channelId) == Msg(ev, "", {"server"}, "", channelId, "", <<>>, "")

\* socketService.joinChannel(channelId): the app's state after it and what it emitted.
ServiceJoinChannel(c, channelId) ==
    IF c.currentChannel = channelId THEN [client |-> c, out |-> <<>>]
    ELSE IF c.connected
    THEN [client |-> [c EXCEPT !.currentChannel = channelId],
          out |-> (IF c.currentChannel # ""
                   THEN <<ClientEmit("leaveChannel", c.currentChannel)>> ELSE <<>>)
                  \o <<ClientEmit("joinChannel", channelId)>>]
    ELSE [client |-> c, out |-> <<>>]

\* socketService.leaveChannel(channelId)
ServiceLeaveChannel(c, channelId) ==
    IF c.connected
    THEN [client |-> [c EXCEPT !.currentChannel = IF @ = channelId THEN "" ELSE @],
          out |-> <<ClientEmit("leaveChannel", channelId)>>]
    ELSE [client |-> c, out |-> <<>>]

\* joinFrequencyChannel(freq) of a render whose isJoined was `closure`.
JoinFrequencyChannel(c, channelId, closure) ==
    IF ~c.connected THEN [client |-> c, out |-> <<>>]
    ELSE ServiceJoinChannel(
             [c EXCEPT !.isJoined = FALSE,
                       !.joinTimeout = <<[channelId |-> channelId, isJoined |-> closure]>>],
             channelId)

\* The socket connects or reconnects: the connect handler sets its 1 s timer.
CConnect ==
    /\ ~client.connected
    /\ client.connectTimer = ""
    /\ client' = [client EXCEPT !.connected = TRUE, !.connectTimer = client.frequency]
    /\ sent' = <<>>
    /\ last' = Event("connect", "client", client.frequency, "")
    /\ UNCHANGED clientFrame

\* The connect handler's timer fires: joinFrequencyChannel(frequency).
CConnectTimer ==
    /\ client.connectTimer # ""
    /\ LET r == JoinFrequencyChannel([client EXCEPT !.connectTimer = ""],
                                     client.connectTimer, client.seenJoined)
       IN  /\ client' = r.client
           /\ sent' = r.out
    /\ last' = Event("connectTimer", "client", client.connectTimer, "")
    /\ UNCHANGED clientFrame

\* The join button: joinFrequencyChannel(frequency) of the latest render.
CJoinPressed ==
    /\ LET r == JoinFrequencyChannel(client, client.frequency, client.isJoined)
       IN  /\ client' = r.client
           /\ sent' = r.out
    /\ last' = Event("joinPressed", "client", client.frequency, "")
    /\ UNCHANGED clientFrame

\* The 5 s join timeout fires: no joinConfirmation has cleared it.
CJoinTimeout ==
    /\ client.joinTimeout # <<>>
    /\ LET t == client.joinTimeout[1]
           c == [client EXCEPT !.joinTimeout = <<>>]
           r == IF ~t.isJoined THEN ServiceJoinChannel(c, t.channelId)
                ELSE [client |-> c, out |-> <<>>]
       IN  /\ client' = r.client
           /\ sent' = r.out
           /\ last' = Event("joinTimeout", "client", t.channelId, "")
    /\ UNCHANGED clientFrame

\* A joinConfirmation arrives.
CJoinConfirmation(channelId, success) ==
    /\ client.connected
    /\ client' = [client EXCEPT !.joinTimeout = <<>>, !.isJoined = success]
    /\ sent' = <<>>
    /\ last' = Event("joinConfirmation", "client", channelId,
                     IF success THEN "true" ELSE "false")
    /\ UNCHANGED clientFrame

\* An activeUsers list arrives.
CActiveUsers ==
    /\ client.connected
    /\ client' = [client EXCEPT !.isJoined = TRUE]
    /\ sent' = <<>>
    /\ last' = Event("activeUsers", "client", "", "")
    /\ UNCHANGED clientFrame

\* The connection drops; socket.io will reconnect the same socket.
CDisconnected(reason) ==
    /\ client.connected
    /\ client' = IF reason # "io client disconnect" /\ reason # "transport close"
                 THEN [client EXCEPT !.connected = FALSE, !.resetTimer = TRUE]
                 ELSE [client EXCEPT !.connected = FALSE, !.isJoined = FALSE]
    /\ sent' = <<>>
    /\ last' = Event("disconnect", "client", "", reason)
    /\ UNCHANGED clientFrame

\* The disconnect handler's 3 s timer fires.
CResetTimer ==
    /\ client.resetTimer
    /\ client' = [client EXCEPT !.resetTimer = FALSE,
                                !.isJoined = IF ~client.connected THEN FALSE ELSE @]
    /\ sent' = <<>>
    /\ last' = Event("resetTimer", "client", "", "")
    /\ UNCHANGED clientFrame

\* The frequency changes: the effect's cleanup leaves the old channel and
\* disconnects, then the effect runs again with a new socket.
CSetFrequency(channelId) ==
    /\ channelId # client.frequency
    /\ LET r == ServiceLeaveChannel(client, client.frequency)
       IN  /\ client' = [r.client EXCEPT !.connected = FALSE, !.joinTimeout = <<>>,
                                         !.seenJoined = client.isJoined,
                                         !.isJoined = FALSE, !.frequency = channelId]
           /\ sent' = r.out
    /\ last' = Event("setFrequency", "client", channelId, "")
    /\ UNCHANGED clientFrame

\* async uploadAudioWithRetry(uri, channelId, maxRetries = 3)
maxRetries == 3

\* export const SOCKET_URL, without the address
SOCKET_URL == "http://server:8080"

\* socketService.sendAudioData(channelId, { uri }): emitted if the socket is connected.
ServiceSendAudioData(c, channelId, uri) ==
    IF c.connected
    THEN <<Msg("audioData", "", {"server"}, "", channelId, "", <<>>, uri)>>
    ELSE <<>>

\* socketService.sendPttStatus({ channelId, status }): emitted if the socket is connected.
ServiceSendPttStatus(c, channelId, status) ==
    IF c.connected
    THEN <<Msg("pttStatus", "", {"server"}, "", channelId, status, <<>>, "")>>
    ELSE <<>>

\* const delay = 1000 * Math.pow(2, retryCount - 1)
Backoff(retryCount) == 1000 * 2 ^ (retryCount - 1)

\* uploadAudioWithRetry(uri, channelId) is called and, after the wait that keeps
\* two uploads MIN_UPLOAD_INTERVAL apart, enters its loop.
UStart(channelId) ==
    /\ client.upload.pc \in {"idle", "returned"}
    /\ client' = [client EXCEPT !.upload = [UploadIdle EXCEPT !.pc = "fetch",
                                                             !.channelId = channelId]]
    /\ sent' = <<>>
    /\ last' = Event("uploadStart", "client", channelId, "")
    /\ UNCHANGED clientFrame

\* One pass of the loop.  The fetch answers with success and a fileUrl: the
\* audioData is sent and the call returns true.  Or the fetch fails, is aborted
\* after 15 s, or answers with an error: retryCount++, and the call waits for
\* the back-off or, after the last retry, sends pttStatus(false) and returns false.
UAttempt(fileUrl) ==
    /\ client.upload.pc = "fetch"
    /\ LET u == [client.upload EXCEPT !.attempts = @ + 1]
           n == u.retryCount + 1
       IN IF fileUrl # ""
          THEN /\ sent' = ServiceSendAudioData(client, u.channelId, SOCKET_URL \o fileUrl)
               /\ client' = [client EXCEPT !.upload =
                                [u EXCEPT !.pc = "returned", !.returned = "true",
                                          !.audio = @ + Len(sent')]]
               /\ last' = Event("uploadAttempt", "client", u.channelId, "ok")
          ELSE IF n < maxRetries
          THEN /\ sent' = <<>>
               /\ client' = [client EXCEPT !.upload =
                                [u EXCEPT !.pc = "backoff", !.retryCount = n]]
               /\ last' = Event("uploadAttempt", "client", u.channelId, "retry")
          ELSE /\ sent' = ServiceSendPttStatus(client, u.channelId, "false")
               /\ client' = [client EXCEPT !.upload =
                                [u EXCEPT !.pc = "returned", !.retryCount = n,
                                          !.returned = "false", !.ptt = @ + Len(sent')]]
               /\ last' = Event("uploadAttempt", "client", u.channelId, "failed")
    /\ UNCHANGED clientFrame

\* The back-off delay has passed; last.st is the delay.
UBackoff ==
    /\ client.upload.pc = "backoff"
    /\ client' = [client EXCEPT !.upload.pc = "fetch"]
    /\ sent' = <<>>
    /\ last' = Event("uploadBackoff", "client", client.upload.channelId,
                     Backoff(client.upload.retryCount))
    /\ UNCHANGED clientFrame

\* socketService.getSocketId(): the id of the app's own socket.
SocketId == "client"

\* The users a pttStatus can name: the other devices and the app itself.
PttUsers == Sockets \cup {SocketId}

\* handlePTTStatus({ userId, status }): the displayed speaker ("" is null), the
\* listening flag, and the 300 ms follow-up timers still pending, oldest first.
HandlePTTStatus(c, userId, status) ==
    LET shown == IF status = "true"
                 THEN [c EXCEPT !.speakingUser = userId, !.isListening = TRUE]
                 ELSE IF userId = SocketId
                 THEN [c EXCEPT !.speakingUser = "", !.isListening = FALSE]
                 ELSE c
    IN  IF status # "true" /\ userId # SocketId
        THEN [shown EXCEPT !.pttTimers = Append(@, userId)]
        ELSE shown

\* A pttStatus arrives from the server.
CPttStatus(userId, status) ==
    /\ client.connected
    /\ (status # "true" /\ userId # SocketId) => Len(client.pttTimers) < MaxTimers
    /\ client' = HandlePTTStatus(client, userId, status)
    /\ sent' = <<>>
    /\ last' = Event("pttStatus", userId, "", status)
    /\ UNCHANGED clientFrame

\* The oldest follow-up timer fires, 300 ms after the release that set it.
CPttTimer ==
    /\ client.pttTimers # <<>>
    /\ client' = [client EXCEPT !.pttTimers = Tail(@), !.speakingUser = "",
                                !.isListening = FALSE]
    /\ sent' = <<>>
    /\ last' = Event("pttTimer", Head(client.pttTimers), "", "")
    /\ UNCHANGED clientFrame

NextClient ==
    \/ CConnect
    \/ CConnectTimer
    \/ CJoinPressed
    \/ CJoinTimeout
    \/ \E c \in Channels, ok \in BOOLEAN : CJoinConfirmation(c, ok)
    \/ CActiveUsers
    \/ \E reason \in {"transport close", "ping timeout"} : CDisconnected(reason)
    \/ CResetTimer
    \/ \E c \in Channels : CSetFrequency(c)
    \/ \E c \in Channels : UStart(c)
    \/ \E fileUrl \in {""} \cup PathUris : UAttempt(fileUrl)
    \/ UBackoff
    \/ \E u \in PttUsers, status \in {"true", "false"} : CPttStatus(u, status)
    \/ CPttTimer

SpecClient == InitClient /\ [][NextClient]_vars

\* forceClearSpeakingState(delay): one more pending timer; its closure holds the
\* channel of the render that scheduled it.
ForceClearSpeakingState(c, delay) ==
    [c EXCEPT !.clearTimers = Append(@, [channelId |-> c.frequency, delay |-> delay])]

\* startRecording(): the PTT button is pressed.  When audioService has started a
\* recording the app shows itself as the speaker and sends pttStatus(true).
RStart(ok) ==
    /\ ~client.isRecording
    /\ IF ok
       THEN /\ client' = [client EXCEPT !.isRecording = TRUE,
                                        !.speakingUser = IF client.connected
                                                         THEN SocketId ELSE ""]
            /\ sent' = ServiceSendPttStatus(client, client.frequency, "true")
       ELSE /\ client' = client
            /\ sent' = <<>>
    /\ last' = Event("startRecording", "client", client.frequency,
                     IF ok THEN "true" ELSE "false")
    /\ UNCHANGED clientFrame

\* stopRecording(), up to its first await: the PTT button is released.  One
\* stopRecording at a time is followed.
RStop ==
    /\ client.isRecording
    /\ ~client.stopping
    /\ client' = [client EXCEPT !.isRecording = FALSE, !.speakingUser = "",
                                !.stopping = TRUE]
    /\ sent' = <<>>
    /\ last' = Event("stopRecording", "client", client.frequency, "")
    /\ UNCHANGED clientFrame

\* stopRecording() after its awaits.  The upload gave a URL ("url"), gave none
\* ("none"), or a call threw ("throw"): audioData on a URL, pttStatus(false) in
\* every case, and the force-clear timer of 2000 ms, or 500 ms after a throw.
RStopDone(outcome) ==
    /\ client.stopping
    /\ Len(client.clearTimers) < MaxTimers
    /\ LET c == [client EXCEPT !.stopping = FALSE]
       IN IF outcome = "throw"
          THEN /\ client' = ForceClearSpeakingState(
                                [c EXCEPT !.isRecording = FALSE, !.speakingUser = ""], 500)
               /\ sent' = ServiceSendPttStatus(client, client.frequency, "false")
          ELSE /\ client' = ForceClearSpeakingState(c, 2000)
               /\ sent' = (IF outcome = "url"
                           THEN ServiceSendAudioData(client, client.frequency,
                                                     SOCKET_URL \o "/uploads/a.m4a")
                           ELSE <<>>)
                          \o ServiceSendPttStatus(client, client.frequency, "false")
    /\ last' = Event("stopDone", "client", client.frequency, outcome)
    /\ UNCHANGED clientFrame

\* A force-clear timer fires: with a socket id, the display is cleared and one
\* more pttStatus(false) is sent.
CForceClear ==
    /\ client.clearTimers # <<>>
    /\ LET t == Head(client.clearTimers)
           c == [client EXCEPT !.clearTimers = Tail(@)]
       IN IF client.connected
          THEN /\ client' = [c EXCEPT !.speakingUser = "", !.isListening = FALSE]
               /\ sent' = ServiceSendPttStatus(client, t.channelId, "false")
          ELSE /\ client' = c
               /\ sent' = <<>>
    /\ last' = Event("forceClear", "client", Head(client.clearTimers).channelId, "")
    /\ UNCHANGED clientFrame

\* The audio hook of the app with the connection it sends through.
NextAudio ==
    \/ CConnect
    \/ CConnectTimer
    \/ \E reason \in {"transport close", "ping timeout"} : CDisconnected(reason)
    \/ CResetTimer
    \/ \E ok \in BOOLEAN : RStart(ok)
    \/ RStop
    \/ \E outcome \in {"url", "none", "throw"} : RStopDone(outcome)
    \/ CForceClear
    \/ \E u \in PttUsers, status \in {"true", "false"} : CPttStatus(u, status)
    \/ CPttTimer

SpecAudio == InitClient /\ [][NextAudio]_vars

\* The connection and join handlers of the app alone, with its timers firing
\* when they are due: setTimeout callbacks run once their delay has passed.
NextRejoin ==
    \/ CConnect
    \/ CConnectTimer
    \/ CJoinPressed
    \/ CJoinTimeout
    \/ \E c \in Channels, ok \in BOOLEAN : CJoinConfirmation(c, ok)
    \/ CActiveUsers
    \/ \E reason \in {"transport close", "ping timeout"} : CDisconnected(reason)
    \/ CResetTimer
    \/ \E c \in Channels : CSetFrequency(c)

SpecRejoin ==
    /\ InitClient
    /\ [][NextRejoin]_vars
    /\ WF_vars(CConnectTimer)
    /\ WF_vars(CJoinTimeout)
    /\ WF_vars(CResetTimer)

\* C16: when the app's 5 s join timeout fires while it is connected, because
\* no joinConfirmation has arrived since it sent the join, the app emits the
\* same joinChannel again.
C16_JoinResent ==
    [][(last'.op = "joinTimeout" /\ client.connected)
       => \E i \in 1..Len(sent') : /\ sent'[i].ev = "joinChannel"
                                   /\ sent'[i].channelId = last'.ch]_vars

\* The last event is a joinChannel, leaveChannel, pttStatus or audioData whose
\* payload was absent or named no channel.
Malformed ==
    /\ last.op \in {"joinChannel", "leaveChannel", "pttStatus", "audioData"}
    /\ last.st = "crash" \/ last.ch \notin Channels

\* C17: in every backend a joinChannel, leaveChannel, pttStatus or audioData
\* with a missing or malformed payload leaves the server running, leaves every
\* other connection connected and in the rooms it was in, and delivers nothing
\* to any other connection.
C17_MalformedLocal ==
    [][Malformed'
       => /\ server' = "up"
          /\ \A x \in Sockets \ {last'.sock} :
                /\ conn'[x] = conn[x]
                /\ \A c \in DOMAIN rooms : SetHas(rooms'[c], x) <=> SetHas(rooms[c], x)
                /\ \A i \in 1..Len(sent') : x \notin sent'[i].to]_vars

\* C21: in the Map-based backend a channel id is a key of channels exactly when
\* the channel has a member, and the keys of users are exactly the connected
\* sockets; /status lists Array.from(channels.keys()) and users.size.
C21_StatusExact ==
    variant = "map"
    => /\ \A c \in MChannelIds :
             c \in DOMAIN channels <=> (rooms[c] # <<>> /\ channels[c] # <<>>)
       /\ \A c \in MChannelIds : c \notin DOMAIN channels => rooms[c] = <<>>
       /\ DOMAIN users = {s \in Sockets : conn[s] = "open"}

\* The last member of a channel has left it while the other channel still has
\* a member: only the other channel is a key.
C21_Witness ==
    /\ variant = "map"
    /\ last.op = "leaveChannel"
    /\ last.ch \in Channels
    /\ last.ch \notin DOMAIN channels
    /\ \E c \in Channels : c \in DOMAIN channels
    /\ Cardinality(DOMAIN users) = 2

\* C22: in the multi-channel backend a leaveChannel by a member takes it out of
\* the channel and sends userLeft(leaver) once, to exactly the remaining
\* members; a disconnect sends userLeft only to the channels the connection is
\* still in, so none to a channel it has left.
C22_LeaveNoticeOnce ==
    [][/\ (last'.op = "leaveChannel" /\ SetHas(userChannels[last'.sock], last'.ch))
          => /\ ~SetHas(rooms'[last'.ch], last'.sock)
             /\ ~SetHas(userChannels'[last'.sock], last'.ch)
             /\ Len(sent') = 1
             /\ sent'[1].ev = "userLeft"
             /\ sent'[1].userId = last'.sock
             /\ sent'[1].to = Range(rooms[last'.ch]) \ {last'.sock}
       /\ last'.op = "disconnect"
          => \A i \in 1..Len(sent') :
                /\ sent'[i].ev = "userLeft"
                /\ SetHas(userChannels[last'.sock], sent'[i].room)
                /\ \A j \in 1..Len(sent') : sent'[j].room = sent'[i].room => j = i]_vars

\* s1 had joined both channels and left the first while s2 stayed in it; on its
\* disconnect only the second channel is notified.
C22_Witness ==
    /\ last.op = "disconnect"
    /\ last.sock = "s1"
    /\ \A c \in Channels : <<"s1", c>> \in confirmed
    /\ SetHas(rooms["freq-446.00"], "s2")
    /\ Len(sent) = 1
    /\ sent[1].room = "freq-462.55"

\* C23: in the multi-channel backend the activeUsers list delivered to a joiner
\* by the delayed callback holds exactly the members the channel has when the
\* callback runs, the joiner being still a member then.
C23_RosterCurrent ==
    [][(last'.op = "joinTimer" /\ sent'[1].to # {} /\ SetHas(rooms[last'.ch], last'.sock))
       => /\ sent'[1].ev = "activeUsers"
          /\ Range(sent'[1].users) = Range(rooms[last'.ch])]_vars

\* C24: in the health-checked backend a joinChannel first takes the connection
\* out of the channel it is in, so a connection is a member of at most one
\* channel, in the rooms and in activeChannels.
C24_SingleChannel ==
    variant = "health"
    => \A s \in Sockets :
          /\ Cardinality({c \in Channels : SetHas(rooms[c], s)}) <= 1
          /\ Cardinality({c \in Channels : SetHas(activeChannels[c], s)}) <= 1

\* The last event is a pttStatus or audioData of a socket, or a POST to
\* /audio-data, which names a channel.
RelayRequest ==
    /\ last.op \in {"pttStatus", "audioData", "postAudioData"}
    /\ last.st # "crash"
    /\ last.ch \in Channels

\* C25: in the health-checked and the Map-based backend a pttStatus or
\* audioData request, and a POST to /audio-data, is relayed to a channel only
\* when its sender is a member of the channel; the request of a non-member
\* delivers no pttStatus and no audioData to anyone.
C25_MembersOnlyRelay ==
    [][(variant \in {"health", "map"} /\ RelayRequest'
        /\ ~SetHas(rooms[last'.ch], last'.sock))
       => \A i \in 1..Len(sent') :
             sent'[i].ev \in {"pttStatus", "audioData"} => sent'[i].to = {}]_vars

\* The events a client sends to the health-checked backend.
Inbound == {"joinChannel", "leaveChannel", "pttStatus", "audioData", "ping"}

\* C26: in the health-checked backend every inbound message sets the
\* connection's activity time to the current time, and the health check
\* disconnects a connection only when its last inbound message is more than
\* 60 s old.
C26_ActiveKeptAlive ==
    [][/\ last'.op \in Inbound => lastActivity'[last'.sock] = now
       /\ (last'.op = "healthCheck" /\ last'.st = "disconnect")
          => now - lastActivity[last'.sock] > HEALTH_TIMEOUT_MS]_vars

\* A health check finds a connection whose last message is exactly 60 s old,
\* sent when the server had run for 45 s or more, and leaves it connected.
C26_Witness ==
    /\ last.op = "healthCheck"
    /\ last.st = "alive"
    /\ now - lastActivity[last.sock] = HEALTH_TIMEOUT_MS
    /\ lastActivity[last.sock] >= HEALTH_INTERVAL_MS + TickMs
    /\ conn[last.sock] = "open"

\* C27: a call of uploadAudioWithRetry makes at most maxRetries fetches, waits
\* 1 s and then 2 s between them, and returns; it has emitted one audioData and
\* fetched no more when a fetch succeeded, and no audioData and one
\* pttStatus(false) when every fetch failed.
C27_UploadRetried ==
    /\ [](LET u == client.upload IN
            /\ u.attempts <= maxRetries
            /\ u.pc = "returned"
               => /\ u.returned = "true" => u.audio = 1 /\ u.ptt = 0
                  /\ u.returned = "false"
                     => u.audio = 0 /\ u.ptt = 1 /\ u.attempts = maxRetries)
    /\ [][/\ last'.op = "uploadBackoff"
             => last'.st = IF client.upload.attempts = 1 THEN 1000 ELSE 2000
          /\ (last'.op = "uploadAttempt" /\ last'.st = "ok")
             => client'.upload.pc = "returned"]_vars
\* C28: a pttStatus(false) from user X, and the 300 ms follow-up timer that it
\* sets, clear the displayed speaking user only when X is the one displayed:
\* while another user Y is displayed, neither step changes the display.
C28_ReleaseClearsOwn ==
    [][((last'.op = "pttStatus" /\ last'.st = "false") \/ last'.op = "pttTimer")
       /\ client.speakingUser # last'.sock
       => client'.speakingUser = client.speakingUser]_vars
\* C29: in the multi-channel backend, when the joiner has left the channel or
\* disconnected before the delayed callback of its join runs, the callback
\* delivers nothing: no roster to the joiner and no userJoined to the members.
C29_LateNoticesSuppressed ==
    [][(last'.op = "joinTimer" /\ ~SetHas(rooms[last'.ch], last'.sock))
       => \A i \in 1..Len(sent') : sent'[i].to = {}]_vars
\* C30: in the health-checked backend, when a pttStatus(true) from X has just
\* been relayed to a channel, the next relay to that channel is not the
\* delayed duplicate of a release that X sent before it.
C30_NoStaleRelease ==
    [][(/\ variant = "health"
        /\ last.op = "pttStatus" /\ last.st = "true" /\ sent[1].to # {}
        /\ last'.op = "pttTimer" /\ last'.sock = last.sock /\ last'.ch = last.ch)
       => sent'[1].to = {}]_vars
\* The app has just emitted joinChannel for its selected frequency.
JoinSent ==
    \E i \in 1..Len(sent) :
        sent[i].ev = "joinChannel" /\ sent[i].channelId = client.frequency

\* C31: after the app's socket has connected, for the first time or again
\* after a disconnect, the app emits joinChannel for its selected frequency,
\* unless the connection is lost again before that.
C31_RejoinsAfterReconnect ==
    (last.op = "connect") ~> (JoinSent \/ ~client.connected)
\* C32: while a join is pending, a joinConfirmation that names another
\* channel than the one being joined changes neither isJoined nor the
\* pending retry timer.
C32_ForeignConfirmationIgnored ==
    [][(/\ last'.op = "joinConfirmation"
        /\ client.joinTimeout # <<>>
        /\ last'.ch # client.joinTimeout[1].channelId)
       => /\ client'.isJoined = client.isJoined
          /\ client'.joinTimeout = client.joinTimeout]_vars
\* C33: in the Map-based backend, a step after which a connection is no longer
\* in a channel's room sends userLeft for it to every member that remains in
\* that room.
C33_EveryExitNotified ==
    [][(variant = "map" /\ server' = "up")
       => \A s \in Sockets, c \in MChannelIds :
             (SetHas(rooms[c], s) /\ ~SetHas(rooms'[c], s))
             => \A m \in Range(rooms'[c]) :
                   \E i \in 1..Len(sent') :
                       /\ sent'[i].ev = "userLeft"
                       /\ sent'[i].userId = s
                       /\ m \in sent'[i].to]_vars
\* C34: while a recording is in progress, neither the rest of an earlier
\* stopRecording nor the force-clear timer of an earlier release sends
\* pttStatus(false) or changes the displayed speaker.
C34_NoClearWhileRecording ==
    [][(client.isRecording /\ last'.op \in {"stopDone", "forceClear"})
       => /\ \A i \in 1..Len(sent') :
                ~(sent'[i].ev = "pttStatus" /\ sent'[i].status = "false")
          /\ client'.speakingUser = client.speakingUser]_vars
\* C35: in the health-checked backend a connection has its health-check
\* interval, due within the next 30 s, exactly while it is connected: none
\* before the connection, and none after it has closed, by the client or by
\* the monitor.
C35_TimerWithConnection ==
    variant = "health"
    => \A s \in Sockets :
          IF conn[s] = "open"
          THEN healthCheck[s] >= now /\ healthCheck[s] - now <= HEALTH_INTERVAL_MS
          ELSE healthCheck[s] = -1

\* The monitor has just closed one connection while the other is still open
\* with its interval running.
C35_Witness ==
    /\ variant = "health"
    /\ last.op = "healthCheck"
    /\ last.st = "disconnect"
    /\ conn[last.sock] = "closed"
    /\ healthCheck[last.sock] = -1
    /\ \E s \in Sockets : conn[s] = "open" /\ healthCheck[s] > now
====
